---------------------------- MODULE Spec2Model ----------------------------
(***************************************************************************)
(* A model of evo/threads, the C11 <threads.h> emulation over the Win32    *)
(* API (src/src/src/evo/threads/win32.c).                                  *)
(*                                                                         *)
(* The module holds one specification per primitive family:                *)
(*   SpecOnce  call_once on one shared once_flag                           *)
(*   SpecMtx   one mtx_t and one cnd_t shared by several threads           *)
(*   SpecThrd  thrd_create / thrd_exit / thrd_join and the TSS functions   *)
(* Every specification leaves the variables of the other families at      *)
(* their initial values.                                                   *)
(***************************************************************************)
EXTENDS Integers, Sequences, FiniteSets, TLC

VARIABLES
  \* ---- call_once ----
  nativeOnce,    \* build configuration: EMULATED_THREADS_USE_NATIVE_CALL_ONCE
  status,        \* once_flag.status (0 not started, 1 in progress, 2 done)
  opc,           \* opc[t]: position of caller t inside call_once
  funcStarted,   \* number of times the initializer was entered
  funcDone,      \* number of times the initializer ran to its end
  seen,          \* seen[t]: funcDone as caller t reads it once call_once returned
  \* ---- mtx_t, cnd_t ----
  mtxKind,       \* "none" before mtx_init succeeds, then whether its type had
                 \* mtx_recursive ("recursive") or not ("plain"); the code
                 \* itself keeps no trace of the type
  cs,            \* the CRITICAL_SECTION: OwningThread (0: none), RecursionCount
  held,          \* held[t]: acquisitions returned to t and not yet unlocked
  cond,          \* the CONDITION_VARIABLE: the set of threads sleeping on it
  mpc,           \* mpc[t]: position of t inside a blocking or looping call
  wake,          \* wake[t]: what ended the sleep of t: "wake" (a wake call or a
                 \* spurious wakeup) or "timeout"; "none" while none did
  deadline,      \* deadline[t]: the timespec of the mtx_timedlock t is in
  expire,        \* expire[t]: clock value (ms) at which the sleep of t times out
  clock,         \* the TIME_UTC clock, in ticks
  lastCall,      \* the call that returned last: function and return value
  \* ---- thrd_t, tss_t ----
  tpc,           \* tpc[t]: position of thread t (0 is the initial thread)
  pack,          \* pack[h]: the impl_thrd_param allocated for thread h
  handle,        \* handle[h]: the native handle thrd_create returned for h
  createRet,     \* createRet[h]: what the last thrd_create for h returned
  joinRet,       \* joinRet[h]: what the last thrd_join of h returned
  resVal,        \* resVal[h]: *res after thrd_join (set: whether it was stored)
  userCode,      \* userCode[h]: the int h returned or passed to thrd_exit
  exitCode,      \* exitCode[h]: the native exit code of h, a DWORD
  impl_tss_dtor_tbl,  \* the destructor table: entries [key, dtor]
  tlsAlloc,      \* the native TLS indexes that are allocated
  tls,           \* tls[t][k]: the value of thread t in TLS index k (0 is NULL)
  keyDtor,       \* keyDtor[k]: the destructor given to the tss_create that
                 \* returned the live key k ("none": k is not a live key)
  calls,         \* calls[t]: the destructor invocations made by thread t
  atExit,        \* atExit[t][k]: keyDtor[k] and tls[t][k] when t began to exit
  creg,          \* creg[t]: key, dtor and table index of the tss_create t is in
  sweepAt,       \* sweepAt[t]: the index i of impl_tss_dtor_invoke in thread t
  lastTss,       \* the tss_create that returned last: return value, key, dtor
  nCreates,      \* number of tss_create calls made
  \* ---- a call of impl_abs2relmsec ----
  abs_time,      \* its argument
  now,           \* what timespec_get stores during the call
  rel_ms         \* what the call returns, once it has returned

onceVars == <<nativeOnce, status, opc, funcStarted, funcDone, seen>>

mtxVars == <<mtxKind, cs, held, cond, mpc, wake, deadline, expire, clock, lastCall>>

lifeVars == <<pack, handle, createRet, joinRet, resVal, userCode, exitCode>>

tssVars == <<impl_tss_dtor_tbl, tlsAlloc, tls, keyDtor, calls, atExit, creg,
             sweepAt, lastTss, nCreates>>

thrdVars == <<tpc, lifeVars, tssVars>>

timeVars == <<abs_time, now, rel_ms>>

vars == <<onceVars, mtxVars, thrdVars, timeVars>>

(***************************************************************************)
(* 7.25.2.1 call_once                                                      *)
(***************************************************************************)

\* Number of threads that race on the once_flag.
OnceCallers == 4

OnceThreads == 1 .. OnceCallers

\* ONCE_FLAG_INIT {0}
ONCE_FLAG_INIT == 0

\* An exchange that stores without comparing and reports a match.
StoreWithoutCompare(dest, exchange, comparand) ==
  [dest |-> exchange, ret |-> comparand]

\* InterlockedCompareExchangePointer(&dest, exchange, comparand), one atomic
\* step: .dest is the value dest holds afterwards, .ret the value returned
\* (the old value of dest).
InterlockedCompareExchangePointer(dest, exchange, comparand) ==
  [dest |-> IF dest = comparand THEN exchange ELSE dest, ret |-> dest]

InitOnceVars ==
  /\ nativeOnce \in BOOLEAN
  /\ status = ONCE_FLAG_INIT
  /\ opc = [t \in OnceThreads |-> "idle"]
  /\ funcStarted = 0
  /\ funcDone = 0
  /\ seen = [t \in OnceThreads |-> -1]

\* line 137: the compare-exchange that claims the flag (emulated build).
CallOnceCas(t) ==
  /\ ~nativeOnce
  /\ opc[t] = "idle"
  /\ LET x == InterlockedCompareExchangePointer(status, 1, 0)
     IN  /\ status' = x.dest
         /\ opc' = [opc EXCEPT ![t] = IF x.ret = 0 THEN "call" ELSE "spin"]
  /\ UNCHANGED <<nativeOnce, funcStarted, funcDone, seen, mtxVars, thrdVars, timeVars>>

\* line 134: InitOnceExecuteOnce (native build). The first caller runs the
\* callback; a caller that finds the initialization pending blocks inside
\* the native function; a caller that finds it complete returns.
CallOnceNative(t) ==
  /\ nativeOnce
  /\ opc[t] = "idle"
  /\ status # 1
  /\ LET x == InterlockedCompareExchangePointer(status, 1, 0)
     IN  /\ status' = x.dest
         /\ opc' = [opc EXCEPT ![t] = IF x.ret = 0 THEN "call" ELSE "returned"]
         /\ seen' = [seen EXCEPT ![t] = IF x.ret = 0 THEN @ ELSE funcDone]
  /\ UNCHANGED <<nativeOnce, funcStarted, funcDone, mtxVars, thrdVars, timeVars>>

\* line 138 / line 86: (func)() is entered ...
CallOnceFuncEnter(t) ==
  /\ opc[t] = "call"
  /\ funcStarted' = funcStarted + 1
  /\ opc' = [opc EXCEPT ![t] = "infunc"]
  /\ UNCHANGED <<nativeOnce, status, funcDone, seen, mtxVars, thrdVars, timeVars>>

\* ... and returns.
CallOnceFuncReturn(t) ==
  /\ opc[t] = "infunc"
  /\ funcDone' = funcDone + 1
  /\ opc' = [opc EXCEPT ![t] = "store"]
  /\ UNCHANGED <<nativeOnce, status, funcStarted, seen, mtxVars, thrdVars, timeVars>>

\* line 139: InterlockedExchangePointer(&flag->status, 2); in the native
\* build the callback returns TRUE (line 88) and the flag becomes complete.
CallOnceStore(t) ==
  /\ opc[t] = "store"
  /\ status' = 2
  /\ opc' = [opc EXCEPT ![t] = "returned"]
  /\ seen' = [seen EXCEPT ![t] = funcDone]
  /\ UNCHANGED <<nativeOnce, funcStarted, funcDone, mtxVars, thrdVars, timeVars>>

\* lines 141-144: while (flag->status == 1) thrd_yield();
CallOnceSpin(t) ==
  /\ opc[t] = "spin"
  /\ opc' = [opc EXCEPT ![t] = IF status = 1 THEN "spin" ELSE "returned"]
  /\ seen' = [seen EXCEPT ![t] = IF status = 1 THEN @ ELSE funcDone]
  /\ UNCHANGED <<nativeOnce, status, funcStarted, funcDone, mtxVars, thrdVars, timeVars>>

call_once(t) ==
  \/ CallOnceCas(t)
  \/ CallOnceNative(t)
  \/ CallOnceFuncEnter(t)
  \/ CallOnceFuncReturn(t)
  \/ CallOnceStore(t)
  \/ CallOnceSpin(t)

NextOnce == \E t \in OnceThreads : call_once(t)

(***************************************************************************)
(* Time: struct timespec, timespec_get and the conversions of win32.c      *)
(***************************************************************************)

\* Last value of the clock, in ticks of half a second.
MaxClock == 1

\* timespec_get(&now, TIME_UTC) at clock value c.
timespec_get(c) == [tv_sec |-> c \div 2, tv_nsec |-> (c % 2) * 500000000]

\* The deadlines callers pass: the values the clock takes.
Deadlines == {timespec_get(c) : c \in 0 .. MaxClock}

\* Times in milliseconds exceed the integers of the model checker, so a
\* number n is kept as two limbs, n = hi * 65536 + lo with lo < 65536.
BigNorm(hi, lo) == [hi |-> hi + (lo \div 65536), lo |-> lo % 65536]

BigZero == BigNorm(0, 0)

\* A comparison that looks at the high limbs only.
BigGtHigh(a, b) == a.hi > b.hi

\* a > b
BigGt(a, b) == a.hi > b.hi \/ (a.hi = b.hi /\ a.lo > b.lo)

BigAdd(a, b) == BigNorm(a.hi + b.hi, a.lo + b.lo)

\* a - b for a >= b.
BigSub(a, b) ==
  IF a.lo >= b.lo
  THEN [hi |-> a.hi - b.hi, lo |-> a.lo - b.lo]
  ELSE [hi |-> a.hi - b.hi - 1, lo |-> a.lo + 65536 - b.lo]

\* (DWORD)n: the low 32 bits.
DWORD(n) == [hi |-> n.hi % 65536, lo |-> n.lo]

\* lines 69-71: (ts->tv_sec * 1000U) + (ts->tv_nsec / 1000000L), a time_t.
impl_timespec2msec(ts) ==
  BigNorm((ts.tv_sec \div 65536) * 1000,
          ((ts.tv_sec % 65536) * 1000) + (ts.tv_nsec \div 1000000))

\* A conversion that gives the distance between the two times, whichever is
\* the later.
Abs2RelUnclamped(abs, cur) ==
  LET abs_ms == impl_timespec2msec(abs)
      now_ms == impl_timespec2msec(cur)
  IN  IF BigGt(abs_ms, now_ms) THEN DWORD(BigSub(abs_ms, now_ms))
      ELSE DWORD(BigSub(now_ms, abs_ms))

\* lines 73-80, for the argument abs, with cur the result of timespec_get.
impl_abs2relmsec(abs, cur) ==
  LET abs_ms == impl_timespec2msec(abs)
      now_ms == impl_timespec2msec(cur)
  IN  IF BigGt(abs_ms, now_ms) THEN DWORD(BigSub(abs_ms, now_ms)) ELSE BigZero

\* INFINITE (0xFFFFFFFF), the timeout cnd_wait passes (line 204).
INFINITE == [hi |-> 65535, lo |-> 65535]

\* When a sleep of `timeout` ms that starts at clock value c ends by itself.
Expiry(c, timeout) ==
  IF timeout = INFINITE
  THEN [never |-> TRUE, at |-> BigZero]
  ELSE [never |-> FALSE, at |-> BigAdd(impl_timespec2msec(timespec_get(c)), timeout)]

\* Largest tv_sec of the near times in the calls of impl_abs2relmsec.
MaxSec == 1

\* The tv_sec values of the calls: near the epoch, and 2^32 ms
\* (4294967.296 s) later.
Secs == (0 .. MaxSec) \cup {4294967 + sec : sec \in 0 .. MaxSec}

Nsecs == {0, 296000000, 999999999}

Timespecs == {[tv_sec |-> sec, tv_nsec |-> nsec] : sec \in Secs, nsec \in Nsecs}

NoResult == [set |-> FALSE, val |-> BigZero]

\* No call of impl_abs2relmsec on its own.
InitTimeVars ==
  /\ abs_time = timespec_get(0)
  /\ now = timespec_get(0)
  /\ rel_ms = NoResult

\* lines 73-80: a call of impl_abs2relmsec(&abs_time) during which
\* timespec_get gives `now`.
Abs2RelCall ==
  /\ ~rel_ms.set
  /\ rel_ms' = [set |-> TRUE, val |-> impl_abs2relmsec(abs_time, now)]
  /\ UNCHANGED <<abs_time, now, onceVars, mtxVars, thrdVars>>

NextTime == Abs2RelCall

(***************************************************************************)
(* 7.25.4 Mutex functions, 7.25.3 Condition variable functions             *)
(***************************************************************************)

\* Number of threads that share the mutex and the condition variable.
MtxThreads == 2

\* Largest recursion count the callers drive the critical section to.
MaxRecursion == 2

MThreads == 1 .. MtxThreads

\* Number of threads in the condition-variable scenario (two sleepers and
\* a thread that wakes them).
CndThreads == 3

CThreads == 1 .. CndThreads

\* threads.h lines 114-119
mtx_plain == 0
mtx_try == 1
mtx_timed == 2
mtx_recursive == 4

\* a | b on non-negative integers.
RECURSIVE BitOr(_, _)
BitOr(a, b) ==
  IF a = 0 THEN b
  ELSE IF b = 0 THEN a
  ELSE (IF a % 2 = 1 \/ b % 2 = 1 THEN 1 ELSE 0) + 2 * BitOr(a \div 2, b \div 2)

\* a & b on non-negative integers.
RECURSIVE BitAnd(_, _)
BitAnd(a, b) ==
  IF a = 0 \/ b = 0 THEN 0
  ELSE (IF a % 2 = 1 /\ b % 2 = 1 THEN 1 ELSE 0) + 2 * BitAnd(a \div 2, b \div 2)

\* A test that lets every type pass.
AnyTypeAccepted(type) == TRUE

\* lines 221-226: the test mtx_init makes of its type argument.
MtxTypeAccepted(type) ==
  ~ ( /\ type # mtx_plain
      /\ type # mtx_timed
      /\ type # mtx_try
      /\ type # BitOr(mtx_plain, mtx_recursive)
      /\ type # BitOr(mtx_timed, mtx_recursive)
      /\ type # BitOr(mtx_try, mtx_recursive) )

\* The type arguments callers pass to mtx_init.
MtxTypes == -1 .. 8

\* InitializeCriticalSection: unowned.
InitializeCriticalSection == [OwningThread |-> 0, RecursionCount |-> 0]

\* A try-enter that does not look at the owner.
TryEnterIgnoringOwner(c, t) ==
  [ok |-> TRUE, cs |-> [OwningThread |-> t, RecursionCount |-> c.RecursionCount + 1]]

\* A try-enter that does not count the entries of the owner.
TryEnterWithoutCounting(c, t) ==
  IF c.OwningThread = 0 \/ c.OwningThread = t
  THEN [ok |-> TRUE, cs |-> [OwningThread |-> t, RecursionCount |-> 1]]
  ELSE [ok |-> FALSE, cs |-> c]

\* TryEnterCriticalSection by thread t: succeeds when the section is free or
\* already owned by t (a critical section is always re-entrant).
TryEnterCriticalSection(c, t) ==
  IF c.OwningThread = 0 \/ c.OwningThread = t
  THEN [ok |-> TRUE,
        cs |-> [OwningThread |-> t, RecursionCount |-> c.RecursionCount + 1]]
  ELSE [ok |-> FALSE, cs |-> c]

\* A leave that frees the section whatever its recursion count.
LeaveWithoutCounting(c) == [OwningThread |-> 0, RecursionCount |-> 0]

\* LeaveCriticalSection by its owner.
LeaveCriticalSection(c) ==
  IF c.RecursionCount = 1
  THEN [OwningThread |-> 0, RecursionCount |-> 0]
  ELSE [c EXCEPT !.RecursionCount = @ - 1]

\* A sleep that releases the critical section but does not join the wait list.
SleepWithoutEnqueue(c, t) == c

\* SleepConditionVariableCS, its first half: t joins the wait list of the
\* condition variable (in the same step in which it leaves the section).
SleepConditionVariableCS(c, t) == c \cup {t}

\* A wake that is handed to some thread even when none is sleeping.
WakeSomeThread(c) == IF c = {} THEN {{w} : w \in DOMAIN mpc} ELSE {{w} : w \in c}

\* WakeConditionVariable: the sets of threads it may wake (one sleeper, its
\* choice left to the system; none when nobody sleeps).
WakeConditionVariable(c) == IF c = {} THEN {{}} ELSE {{w} : w \in c}

\* A wake-all that wakes like WakeConditionVariable.
WakeAllWakingOne(c) == IF c = {} THEN {{}} ELSE {{w} : w \in c}

\* WakeAllConditionVariable: every sleeper.
WakeAllConditionVariable(c) == {c}

Returned(op, ret) == [op |-> op, ret |-> ret]

InitMtxVars(T) ==
  /\ mtxKind = "none"
  /\ cs = InitializeCriticalSection
  /\ held = [t \in T |-> 0]
  /\ cond = {}
  /\ mpc = [t \in T |-> "idle"]
  /\ wake = [t \in T |-> "none"]
  /\ deadline = [t \in T |-> timespec_get(0)]
  /\ expire = [t \in T |-> Expiry(0, INFINITE)]
  /\ clock = 0
  /\ lastCall = Returned("none", "none")

\* A thread may start a call: the mutex is initialised and t is in no call.
Idle(t) == mtxKind # "none" /\ mpc[t] = "idle"

\* lines 218-231
mtx_init(t, type) ==
  /\ mtxKind = "none"
  /\ mpc[t] = "idle"
  /\ IF MtxTypeAccepted(type)
     THEN /\ cs' = InitializeCriticalSection
          /\ mtxKind' = IF BitAnd(type, mtx_recursive) # 0 THEN "recursive" ELSE "plain"
          /\ lastCall' = Returned("mtx_init", "thrd_success")
     ELSE /\ lastCall' = Returned("mtx_init", "thrd_error")
          /\ UNCHANGED <<cs, mtxKind>>
  /\ UNCHANGED <<held, cond, mpc, wake, deadline, expire, clock, onceVars, thrdVars, timeVars>>

\* lines 234-239: EnterCriticalSection returns once the section is free or
\* owned by the caller. A caller re-locks only a mutex of recursive type.
mtx_lock(t) ==
  /\ Idle(t)
  /\ cs.OwningThread = t =>
       mtxKind = "recursive" /\ cs.RecursionCount < MaxRecursion
  /\ TryEnterCriticalSection(cs, t).ok
  /\ cs' = TryEnterCriticalSection(cs, t).cs
  /\ held' = [held EXCEPT ![t] = @ + 1]
  /\ lastCall' = Returned("mtx_lock", "thrd_success")
  /\ UNCHANGED <<mtxKind, cond, mpc, wake, deadline, expire, clock, onceVars, thrdVars, timeVars>>

\* lines 257-264
mtx_trylock(t) ==
  /\ Idle(t)
  /\ cs.OwningThread = t => cs.RecursionCount < MaxRecursion
  /\ LET r == TryEnterCriticalSection(cs, t)
     IN  /\ cs' = r.cs
         /\ held' = [held EXCEPT ![t] = IF r.ok THEN @ + 1 ELSE @]
         /\ lastCall' = Returned("mtx_trylock",
                                 IF r.ok THEN "thrd_success" ELSE "thrd_busy")
  /\ UNCHANGED <<mtxKind, cond, mpc, wake, deadline, expire, clock, onceVars, thrdVars, timeVars>>

\* line 246: one mtx_trylock of the loop of mtx_timedlock.
TimedLockTry(t, ts) ==
  LET r == TryEnterCriticalSection(cs, t)
  IN  /\ cs' = r.cs
      /\ held' = [held EXCEPT ![t] = IF r.ok THEN @ + 1 ELSE @]
      /\ mpc' = [mpc EXCEPT ![t] = IF r.ok THEN "idle" ELSE "tl_check"]
      /\ deadline' = [deadline EXCEPT ![t] = IF r.ok THEN timespec_get(0) ELSE ts]
      /\ lastCall' = IF r.ok THEN Returned("mtx_timedlock", "thrd_success")
                     ELSE lastCall

\* lines 242-246: the call and its first attempt.
mtx_timedlock(t, ts) ==
  /\ Idle(t)
  /\ cs.OwningThread = t => cs.RecursionCount < MaxRecursion
  /\ TimedLockTry(t, ts)
  /\ UNCHANGED <<mtxKind, cond, wake, expire, clock, onceVars, thrdVars, timeVars>>

\* lines 247-251: after a failed attempt, time out or yield.
mtx_timedlock_check(t) ==
  /\ mpc[t] = "tl_check"
  /\ IF impl_abs2relmsec(deadline[t], timespec_get(clock)) = BigZero
     THEN /\ mpc' = [mpc EXCEPT ![t] = "idle"]
          /\ deadline' = [deadline EXCEPT ![t] = timespec_get(0)]
          /\ lastCall' = Returned("mtx_timedlock", "thrd_timedout")
     ELSE /\ mpc' = [mpc EXCEPT ![t] = "tl_try"]
          /\ UNCHANGED <<deadline, lastCall>>
  /\ UNCHANGED <<mtxKind, cs, held, cond, wake, expire, clock, onceVars, thrdVars, timeVars>>

\* line 246 again, after thrd_yield.
mtx_timedlock_retry(t) ==
  /\ mpc[t] = "tl_try"
  /\ TimedLockTry(t, deadline[t])
  /\ UNCHANGED <<mtxKind, cond, wake, expire, clock, onceVars, thrdVars, timeVars>>

\* lines 267-272: LeaveCriticalSection; only the holder calls it.
mtx_unlock(t) ==
  /\ Idle(t)
  /\ cs.OwningThread = t
  /\ cs' = LeaveCriticalSection(cs)
  /\ held' = [held EXCEPT ![t] = @ - 1]
  /\ lastCall' = Returned("mtx_unlock", "thrd_success")
  /\ UNCHANGED <<mtxKind, cond, mpc, wake, deadline, expire, clock, onceVars, thrdVars, timeVars>>

\* SleepConditionVariableCS(cond, mtx, timeout), entered by the thread that
\* has entered the section exactly once: it leaves the section and sleeps.
Sleep(t, timeout) ==
  /\ Idle(t)
  /\ cs.OwningThread = t /\ cs.RecursionCount = 1
  /\ cs' = LeaveCriticalSection(cs)
  /\ held' = [held EXCEPT ![t] = 0]
  /\ cond' = SleepConditionVariableCS(cond, t)
  /\ mpc' = [mpc EXCEPT ![t] = "cnd_blocked"]
  /\ wake' = [wake EXCEPT ![t] = "none"]
  /\ expire' = [expire EXCEPT ![t] = Expiry(clock, timeout)]

\* lines 200-206
cnd_wait(t) ==
  /\ Sleep(t, INFINITE)
  /\ UNCHANGED <<mtxKind, deadline, clock, lastCall, onceVars, thrdVars, timeVars>>

\* lines 184-190
cnd_timedwait(t, abs) ==
  /\ Sleep(t, impl_abs2relmsec(abs, timespec_get(clock)))
  /\ UNCHANGED <<mtxKind, deadline, clock, lastCall, onceVars, thrdVars, timeVars>>

\* The sleepers in W wake up for reason why.
Woken(W, why) ==
  /\ cond' = cond \ W
  /\ mpc' = [w \in DOMAIN mpc |-> IF w \in W THEN "cnd_woken" ELSE mpc[w]]
  /\ wake' = [w \in DOMAIN wake |-> IF w \in W THEN why ELSE wake[w]]

\* lines 176-181
cnd_signal(t) ==
  /\ Idle(t)
  /\ \E W \in WakeConditionVariable(cond) : Woken(W, "wake")
  /\ lastCall' = Returned("cnd_signal", "thrd_success")
  /\ UNCHANGED <<mtxKind, cs, held, deadline, expire, clock, onceVars, thrdVars, timeVars>>

\* lines 152-157
cnd_broadcast(t) ==
  /\ Idle(t)
  /\ \E W \in WakeAllConditionVariable(cond) : Woken(W, "wake")
  /\ lastCall' = Returned("cnd_broadcast", "thrd_success")
  /\ UNCHANGED <<mtxKind, cs, held, deadline, expire, clock, onceVars, thrdVars, timeVars>>

\* SleepConditionVariableCS: the timeout of a sleeper elapses.
SleepTimeout(w) ==
  /\ w \in cond
  /\ ~expire[w].never
  /\ ~BigGt(expire[w].at, impl_timespec2msec(timespec_get(clock)))
  /\ Woken({w}, "timeout")
  /\ UNCHANGED <<mtxKind, cs, held, deadline, expire, clock, lastCall, onceVars, thrdVars, timeVars>>

\* SleepConditionVariableCS: a sleeper wakes with no wake call and no timeout
\* (condition variables are subject to spurious wakeups).
SleepSpurious(w) ==
  /\ w \in cond
  /\ Woken({w}, "wake")
  /\ UNCHANGED <<mtxKind, cs, held, deadline, expire, clock, lastCall, onceVars, thrdVars, timeVars>>

\* SleepConditionVariableCS, its second half: the woken thread enters the
\* section again and the call returns (lines 190-196, 204-205).
SleepReturn(w) ==
  /\ mpc[w] = "cnd_woken"
  /\ TryEnterCriticalSection(cs, w).ok
  /\ cs' = TryEnterCriticalSection(cs, w).cs
  /\ held' = [held EXCEPT ![w] = 1]
  /\ mpc' = [mpc EXCEPT ![w] = "idle"]
  /\ wake' = [wake EXCEPT ![w] = "none"]
  /\ expire' = [expire EXCEPT ![w] = Expiry(0, INFINITE)]
  /\ lastCall' =
       IF expire[w].never THEN Returned("cnd_wait", "thrd_success")
       ELSE Returned("cnd_timedwait",
                     IF wake[w] = "timeout" THEN "thrd_timedout" ELSE "thrd_success")
  /\ UNCHANGED <<mtxKind, cond, deadline, clock, onceVars, thrdVars, timeVars>>

\* The clock advances.
Tick ==
  /\ clock < MaxClock
  /\ clock' = clock + 1
  /\ UNCHANGED <<mtxKind, cs, held, cond, mpc, wake, deadline, expire, lastCall, onceVars, thrdVars, timeVars>>

NextMtx ==
  \/ \E t \in MThreads, type \in MtxTypes : mtx_init(t, type)
  \/ \E t \in MThreads : mtx_lock(t)
  \/ \E t \in MThreads : mtx_trylock(t)
  \/ \E t \in MThreads, ts \in Deadlines : mtx_timedlock(t, ts)
  \/ \E t \in MThreads : mtx_timedlock_check(t)
  \/ \E t \in MThreads : mtx_timedlock_retry(t)
  \/ \E t \in MThreads : mtx_unlock(t)
  \/ \E t \in MThreads : cnd_wait(t)
  \/ \E t \in MThreads, ts \in Deadlines : cnd_timedwait(t, ts)
  \/ \E t \in MThreads : cnd_signal(t)
  \/ \E t \in MThreads : cnd_broadcast(t)
  \/ \E t \in MThreads : SleepTimeout(t)
  \/ \E t \in MThreads : SleepSpurious(t)
  \/ \E t \in MThreads : SleepReturn(t)
  \/ Tick

\* The timed-lock scenario: locks, unlocks and timed locks while the clock
\* advances, no condition variable.
NextTimed ==
  \/ \E t \in MThreads, type \in MtxTypes : mtx_init(t, type)
  \/ \E t \in MThreads : mtx_lock(t)
  \/ \E t \in MThreads, ts \in Deadlines : mtx_timedlock(t, ts)
  \/ \E t \in MThreads : mtx_timedlock_check(t)
  \/ \E t \in MThreads : mtx_timedlock_retry(t)
  \/ \E t \in MThreads : mtx_unlock(t)
  \/ Tick

\* The condition-variable scenario: more threads, no timed calls.
NextCnd ==
  \/ \E t \in CThreads : mtx_init(t, mtx_plain)
  \/ \E t \in CThreads : mtx_lock(t)
  \/ \E t \in CThreads : mtx_unlock(t)
  \/ \E t \in CThreads : cnd_wait(t)
  \/ \E t \in CThreads : cnd_signal(t)
  \/ \E t \in CThreads : cnd_broadcast(t)
  \/ \E t \in CThreads : SleepSpurious(t)
  \/ \E t \in CThreads : SleepReturn(t)

(***************************************************************************)
(* 7.25.5 Thread functions, 7.25.6 Thread-specific storage functions       *)
(***************************************************************************)

\* Number of threads thrd_create starts; thread 0 is the initial thread.
NThrd == 1

\* Number of native TLS indexes that are free when the model starts.
NSlots == 1

\* Number of tss_create calls the threads make.
MaxCreates == 2

\* line 32
EMULATED_THREADS_TSS_DTOR_SLOTNUM == 64

\* TLS_OUT_OF_INDEXES, (DWORD)-1: what TlsAlloc returns when it fails; line
\* 410 writes it 0xFFFFFFFF.
TLS_OUT_OF_INDEXES == -1

Created == 1 .. NThrd

AllThr == 0 .. NThrd

Slots == 0 .. (NSlots - 1)

\* Non-null values the threads store (the null pointer is 0).
Vals == {1, 2}

\* The destructor functions the threads register.
Dtors == {"dtorA", "dtorB"}

\* The ints the thread functions return or pass to thrd_exit.
ExitCodes == {-1, 42}

Entries == 0 .. (EMULATED_THREADS_TSS_DTOR_SLOTNUM - 1)

\* Destructors registered before the model starts: none, or all entries of
\* the table but one. Their keys are live TLS indexes outside Slots in which
\* no thread of the model stores a value.
Prefills == {0, EMULATED_THREADS_TSS_DTOR_SLOTNUM - 1}

EarlierKey(i) == 100 + i

\* (unsigned)code, the conversion of lines 66 and 357, as a 32-bit DWORD
\* (two limbs of 16 bits).
Unsigned(code) == [hi |-> (code \div 65536) % 65536, lo |-> code % 65536]

\* (int)code, the conversion of line 373.
IntOf(d) ==
  IF d.hi >= 32768 THEN ((d.hi - 65536) * 65536) + d.lo ELSE (d.hi * 65536) + d.lo

\* A thread routine that ends with `return 0`.
ExitStatusZero(code) == Unsigned(0)

\* line 66 `return (unsigned)code`, line 357 `_endthreadex((unsigned)res)`:
\* the native exit code of a thread that ends with the int `code`.
ExitStatus(code) == Unsigned(code)

\* TlsAlloc: the values it may return.
TlsAlloc(alloc) ==
  IF Slots \ alloc = {} THEN {TLS_OUT_OF_INDEXES} ELSE Slots \ alloc

\* TlsFree(k): the index is released (nothing happens for an index that is
\* not allocated) and the cell of every thread is cleared.
TlsFreeAlloc(alloc, k) == alloc \ {k}

TlsFreeCells(cells, k) ==
  [t \in DOMAIN cells |-> [j \in Slots |-> IF j = k THEN 0 ELSE cells[t][j]]]

\* lines 422-425: tss_get, TlsGetValue of thread t; NULL for an index that
\* holds nothing.
tss_get(t, k) == IF k \in Slots THEN tls[t][k] ELSE 0

\* A scan whose loop stops one entry early.
ScanStoppingEarly(tbl) ==
  IF \E i \in Entries : i < EMULATED_THREADS_TSS_DTOR_SLOTNUM - 1 /\ tbl[i].dtor = "NULL"
  THEN CHOOSE i \in Entries : /\ tbl[i].dtor = "NULL"
                              /\ \A j \in Entries : j < i => tbl[j].dtor # "NULL"
  ELSE EMULATED_THREADS_TSS_DTOR_SLOTNUM

\* lines 98-103: the value of i after the loop of impl_tss_dtor_register, the
\* first entry without destructor or EMULATED_THREADS_TSS_DTOR_SLOTNUM. The
\* entries are read one by one; as no destructor field ever goes back to
\* NULL, the result is that of reading them all at the time of the last read.
impl_tss_dtor_register_scan(tbl) ==
  IF \E i \in Entries : tbl[i].dtor = "NULL"
  THEN CHOOSE i \in Entries : /\ tbl[i].dtor = "NULL"
                              /\ \A j \in Entries : j < i => tbl[j].dtor # "NULL"
  ELSE EMULATED_THREADS_TSS_DTOR_SLOTNUM

NoCall == [set |-> FALSE, val |-> 0, via |-> "none"]

\* The package of a thread: whether it is allocated, how often it was freed
\* and whether it was accessed while not allocated.
NoPack == [state |-> "none", frees |-> 0, stale |-> FALSE]

\* line 281: malloc returns a new package.
Malloc == [state |-> "allocated", frees |-> 0, stale |-> FALSE]

\* An access to the package (lines 283-284 write it, line 62 reads it).
Access(p) == [p EXCEPT !.stale = @ \/ p.state # "allocated"]

\* free(pack), lines 63 and 287.
Free(p) == [p EXCEPT !.state = "freed", !.frees = @ + 1]

\* A thread routine that frees the package before it copies it.
FreeThenCopy(p) == Access(Free(p))

\* lines 62-63: memcpy(&pack, p, ...); free(p);
CopyThenFree(p) == Free(Access(p))

InitThrdVars ==
  /\ tpc = [t \in AllThr |-> IF t = 0 THEN "user" ELSE "unborn"]
  /\ pack = [h \in Created |-> NoPack]
  /\ handle = [h \in Created |-> "none"]
  /\ createRet = [h \in Created |-> "none"]
  /\ joinRet = [h \in Created |-> "none"]
  /\ resVal = [h \in Created |-> [set |-> FALSE, val |-> 0]]
  /\ userCode = [h \in Created |-> NoCall]
  /\ exitCode = [h \in Created |-> Unsigned(0)]
  /\ \E n \in Prefills :
       impl_tss_dtor_tbl =
         [i \in Entries |-> IF i < n THEN [key |-> EarlierKey(i), dtor |-> "dtorA"]
                            ELSE [key |-> 0, dtor |-> "NULL"]]
  /\ tlsAlloc = {}
  /\ tls = [t \in AllThr |-> [k \in Slots |-> 0]]
  /\ keyDtor = [k \in Slots |-> "none"]
  /\ calls = [t \in AllThr |-> <<>>]
  /\ atExit = [t \in AllThr |-> [k \in Slots |-> [dtor |-> "none", val |-> 0]]]
  /\ creg = [t \in AllThr |-> [key |-> 0, dtor |-> "NULL", idx |-> 0]]
  /\ sweepAt = [t \in AllThr |-> 0]
  /\ lastTss = [ret |-> "none", key |-> 0, dtor |-> "NULL"]
  /\ nCreates = 0

\* lines 277-296, called by the initial thread. mallocOk: malloc returned a
\* package; spawn: "ok" or the errno _beginthreadex failed with.
thrd_create(h, mallocOk, spawn) ==
  /\ tpc[0] = "user"
  /\ tpc[h] = "unborn"
  /\ IF ~mallocOk
     THEN /\ createRet' = [createRet EXCEPT ![h] = "thrd_nomem"]
          /\ UNCHANGED <<tpc, pack, handle>>
     ELSE IF spawn = "ok"
     THEN /\ pack' = [pack EXCEPT ![h] = Access(Malloc)]
          /\ tpc' = [tpc EXCEPT ![h] = "start"]
          /\ handle' = [handle EXCEPT ![h] = "open"]
          /\ createRet' = [createRet EXCEPT ![h] = "thrd_success"]
     ELSE /\ pack' = [pack EXCEPT ![h] = Free(Access(Malloc))]
          /\ createRet' = [createRet EXCEPT ![h] =
               IF spawn \in {"EAGAIN", "EACCES"} THEN "thrd_nomem" ELSE "thrd_error"]
          /\ UNCHANGED <<tpc, handle>>
  /\ UNCHANGED <<joinRet, resVal, userCode, exitCode, tssVars, onceVars, mtxVars, timeVars>>

\* lines 59-63: the new thread copies the package and frees it.
impl_thrd_routine_start(h) ==
  /\ tpc[h] = "start"
  /\ pack' = [pack EXCEPT ![h] = CopyThenFree(@)]
  /\ tpc' = [tpc EXCEPT ![h] = "user"]
  /\ UNCHANGED <<handle, createRet, joinRet, resVal, userCode, exitCode, tssVars,
                 onceVars, mtxVars, timeVars>>

\* The thread begins to exit with the int `code`: impl_tss_dtor_invoke starts.
BeginExit(h, code, via) ==
  /\ h \in Created
  /\ tpc[h] = "user"
  /\ tpc' = [tpc EXCEPT ![h] = "sweep"]
  /\ sweepAt' = [sweepAt EXCEPT ![h] = 0]
  /\ userCode' = [userCode EXCEPT ![h] = [set |-> TRUE, val |-> code, via |-> via]]
  /\ atExit' = [atExit EXCEPT ![h] =
       [k \in Slots |-> [dtor |-> keyDtor[k], val |-> tls[h][k]]]]
  /\ UNCHANGED <<pack, handle, createRet, joinRet, resVal, exitCode,
                 impl_tss_dtor_tbl, tlsAlloc, tls, keyDtor, calls, creg, lastTss,
                 nCreates, onceVars, mtxVars, timeVars>>

\* lines 64-65: pack.func(pack.arg) returns code.
impl_thrd_routine_return(h, code) == BeginExit(h, code, "return")

\* lines 354-356: the thread function calls thrd_exit(res).
thrd_exit(h, res) == BeginExit(h, res, "thrd_exit")

\* The registrations that are under way.
Registering == {t \in AllThr : tpc[t] \in {"reg_scan", "reg_key", "reg_dtor"}}

\* An entry the loop of impl_tss_dtor_invoke passes without effect whenever
\* it reads it: no registration writes it any more (a registration writes the
\* first entry without destructor of its scan, and at most
\* MaxCreates - nCreates scans are still to begin), and it has no destructor
\* or its key holds NULL in every thread.
Inert(i) ==
  /\ \A t \in Registering : tpc[t] # "reg_scan" => creg[t].idx # i
  /\ IF impl_tss_dtor_tbl[i].dtor = "NULL"
     THEN i >= impl_tss_dtor_register_scan(impl_tss_dtor_tbl)
                 + (MaxCreates - nCreates) + Cardinality(Registering)
     ELSE impl_tss_dtor_tbl[i].key \notin Slots

\* The next entry after i at which the loop of impl_tss_dtor_invoke can
\* interfere with another thread, or the end of the table.
NextStop(i) ==
  CHOOSE j \in (i + 1) .. EMULATED_THREADS_TSS_DTOR_SLOTNUM :
    /\ j = EMULATED_THREADS_TSS_DTOR_SLOTNUM \/ ~Inert(j)
    /\ \A m \in (i + 1) .. (j - 1) : Inert(m)

\* lines 114-121: the iteration of the loop of impl_tss_dtor_invoke at entry
\* sweepAt[t], together with the iterations at the inert entries after it.
impl_tss_dtor_invoke(t) ==
  /\ tpc[t] = "sweep"
  /\ sweepAt[t] < EMULATED_THREADS_TSS_DTOR_SLOTNUM
  /\ LET e == impl_tss_dtor_tbl[sweepAt[t]]
         val == tss_get(t, e.key)
     IN  calls' = [calls EXCEPT ![t] =
           IF e.dtor # "NULL" /\ val # 0
           THEN Append(@, [key |-> e.key, dtor |-> e.dtor, val |-> val])
           ELSE @]
  /\ sweepAt' = [sweepAt EXCEPT ![t] = NextStop(@)]
  /\ UNCHANGED <<tpc, lifeVars, impl_tss_dtor_tbl, tlsAlloc, tls, keyDtor, atExit,
                 creg, lastTss, nCreates, onceVars, mtxVars, timeVars>>

\* lines 66 and 357: the loop is over and the thread terminates.
ThreadEnd(h) ==
  /\ tpc[h] = "sweep"
  /\ sweepAt[h] = EMULATED_THREADS_TSS_DTOR_SLOTNUM
  /\ tpc' = [tpc EXCEPT ![h] = "terminated"]
  /\ exitCode' = [exitCode EXCEPT ![h] = ExitStatus(userCode[h].val)]
  /\ tls' = [tls EXCEPT ![h] = [k \in Slots |-> 0]]
  /\ UNCHANGED <<pack, handle, createRet, joinRet, resVal, userCode,
                 impl_tss_dtor_tbl, tlsAlloc, keyDtor, calls, atExit, creg, sweepAt,
                 lastTss, nCreates, onceVars, mtxVars, timeVars>>

\* A thread handle that is signaled as soon as the thread begins to exit.
SignaledWhileExiting(st) == st \in {"sweep", "terminated"}

\* line 364: WaitForSingleObject(thr, INFINITE) can return WAIT_OBJECT_0 only
\* when the handle is signaled, that is once the thread has terminated.
Signaled(st) == st = "terminated"

\* lines 361-377, called by the initial thread with the handle of h.
\* wantRes: res is not NULL; w: what WaitForSingleObject returns
\* (WAIT_OBJECT_0 only once h has terminated); getOk: GetExitCodeThread
\* succeeds.
thrd_join(h, wantRes, w, getOk) ==
  /\ tpc[0] = "user"
  /\ handle[h] = "open"
  /\ w = "WAIT_OBJECT_0" => Signaled(tpc[h])
  /\ IF w # "WAIT_OBJECT_0"
     THEN /\ joinRet' = [joinRet EXCEPT ![h] = "thrd_error"]
          /\ UNCHANGED <<handle, resVal>>
     ELSE IF wantRes /\ ~getOk
     THEN /\ handle' = [handle EXCEPT ![h] = "closed"]
          /\ joinRet' = [joinRet EXCEPT ![h] = "thrd_error"]
          /\ UNCHANGED resVal
     ELSE /\ resVal' = [resVal EXCEPT ![h] =
               IF wantRes THEN [set |-> TRUE, val |-> IntOf(exitCode[h])] ELSE @]
          /\ handle' = [handle EXCEPT ![h] = "closed"]
          /\ joinRet' = [joinRet EXCEPT ![h] = "thrd_success"]
  /\ UNCHANGED <<tpc, pack, createRet, userCode, exitCode, tssVars, onceVars, mtxVars, timeVars>>

\* lines 340-344
thrd_detach(h) ==
  /\ tpc[0] = "user"
  /\ handle[h] = "open"
  /\ handle' = [handle EXCEPT ![h] = "closed"]
  /\ UNCHANGED <<tpc, pack, createRet, joinRet, resVal, userCode, exitCode, tssVars,
                 onceVars, mtxVars, timeVars>>

\* What tss_create returns once the registration is done or not needed
\* (lines 409-412).
TssCreateResult(key) ==
  IF key # TLS_OUT_OF_INDEXES THEN "thrd_success" ELSE "thrd_error"

\* lines 399-403: tss_create(&key, dtor) up to the call of
\* impl_tss_dtor_register; without destructor the call returns here.
tss_create(t, dtor) ==
  /\ tpc[t] = "user"
  /\ nCreates < MaxCreates
  /\ nCreates' = nCreates + 1
  /\ \E k \in TlsAlloc(tlsAlloc) :
       /\ tlsAlloc' = IF k = TLS_OUT_OF_INDEXES THEN tlsAlloc ELSE tlsAlloc \cup {k}
       /\ IF dtor = "NULL"
          THEN /\ lastTss' = [ret |-> TssCreateResult(k), key |-> k, dtor |-> dtor]
               /\ keyDtor' = IF k = TLS_OUT_OF_INDEXES THEN keyDtor
                             ELSE [keyDtor EXCEPT ![k] = "NULL"]
               /\ UNCHANGED <<tpc, creg>>
          ELSE /\ creg' = [creg EXCEPT ![t] = [key |-> k, dtor |-> dtor, idx |-> 0]]
               /\ tpc' = [tpc EXCEPT ![t] = "reg_scan"]
               /\ UNCHANGED <<lastTss, keyDtor>>
  /\ UNCHANGED <<lifeVars, impl_tss_dtor_tbl, tls, calls, atExit, sweepAt,
                 onceVars, mtxVars, timeVars>>

\* lines 98-106 and 404-407: the loop of impl_tss_dtor_register; when the
\* table is full tss_create frees the index and returns thrd_error.
impl_tss_dtor_register(t) ==
  /\ tpc[t] = "reg_scan"
  /\ LET i == impl_tss_dtor_register_scan(impl_tss_dtor_tbl)
     IN  IF i = EMULATED_THREADS_TSS_DTOR_SLOTNUM
         THEN /\ tlsAlloc' = TlsFreeAlloc(tlsAlloc, creg[t].key)
              /\ tls' = TlsFreeCells(tls, creg[t].key)
              /\ lastTss' = [ret |-> "thrd_error", key |-> creg[t].key,
                             dtor |-> creg[t].dtor]
              /\ tpc' = [tpc EXCEPT ![t] = "user"]
              /\ UNCHANGED creg
         ELSE /\ creg' = [creg EXCEPT ![t].idx = i]
              /\ tpc' = [tpc EXCEPT ![t] = "reg_key"]
              /\ UNCHANGED <<tlsAlloc, tls, lastTss>>
  /\ UNCHANGED <<lifeVars, impl_tss_dtor_tbl, keyDtor, calls, atExit, sweepAt,
                 nCreates, onceVars, mtxVars, timeVars>>

\* line 107: impl_tss_dtor_tbl[i].key = key
impl_tss_dtor_register_key(t) ==
  /\ tpc[t] = "reg_key"
  /\ impl_tss_dtor_tbl' = [impl_tss_dtor_tbl EXCEPT ![creg[t].idx].key = creg[t].key]
  /\ tpc' = [tpc EXCEPT ![t] = "reg_dtor"]
  /\ UNCHANGED <<lifeVars, tlsAlloc, tls, keyDtor, calls, atExit, creg, sweepAt,
                 lastTss, nCreates, onceVars, mtxVars, timeVars>>

\* lines 108-109 and 409-412: impl_tss_dtor_tbl[i].dtor = dtor, and
\* tss_create returns.
impl_tss_dtor_register_dtor(t) ==
  /\ tpc[t] = "reg_dtor"
  /\ impl_tss_dtor_tbl' = [impl_tss_dtor_tbl EXCEPT ![creg[t].idx].dtor = creg[t].dtor]
  /\ lastTss' = [ret |-> TssCreateResult(creg[t].key), key |-> creg[t].key,
                 dtor |-> creg[t].dtor]
  /\ keyDtor' = IF creg[t].key = TLS_OUT_OF_INDEXES THEN keyDtor
                ELSE [keyDtor EXCEPT ![creg[t].key] = creg[t].dtor]
  /\ tpc' = [tpc EXCEPT ![t] = "user"]
  /\ UNCHANGED <<lifeVars, tlsAlloc, tls, calls, atExit, creg, sweepAt, nCreates,
                 onceVars, mtxVars, timeVars>>

\* lines 416-419, on a live key.
tss_delete(t, k) ==
  /\ tpc[t] = "user"
  /\ keyDtor[k] # "none"
  /\ tlsAlloc' = TlsFreeAlloc(tlsAlloc, k)
  /\ tls' = TlsFreeCells(tls, k)
  /\ keyDtor' = [keyDtor EXCEPT ![k] = "none"]
  /\ atExit' = [h \in AllThr |->
       IF tpc[h] = "sweep" THEN [atExit[h] EXCEPT ![k].dtor = "none"] ELSE atExit[h]]
  /\ UNCHANGED <<tpc, lifeVars, impl_tss_dtor_tbl, calls, creg, sweepAt,
                 lastTss, nCreates, onceVars, mtxVars, timeVars>>

\* lines 428-434, on a live key.
tss_set(t, k, val) ==
  /\ tpc[t] = "user"
  /\ keyDtor[k] # "none"
  /\ tls' = [tls EXCEPT ![t][k] = val]
  /\ UNCHANGED <<tpc, lifeVars, impl_tss_dtor_tbl, tlsAlloc, keyDtor, calls, atExit,
                 creg, sweepAt, lastTss, nCreates, onceVars, mtxVars, timeVars>>

\* The steps of the threads' lives: creation, exit, join and detach.
ThrdSteps ==
  \/ \E h \in Created, m \in BOOLEAN, sp \in {"ok", "EAGAIN", "EACCES", "EINVAL"} :
       thrd_create(h, m, sp)
  \/ \E h \in Created : impl_thrd_routine_start(h)
  \/ \E h \in Created, code \in ExitCodes : impl_thrd_routine_return(h, code)
  \/ \E h \in Created, code \in ExitCodes : thrd_exit(h, code)
  \/ \E t \in Created : impl_tss_dtor_invoke(t)
  \/ \E h \in Created : ThreadEnd(h)
  \/ \E h \in Created, r \in BOOLEAN, w \in {"WAIT_OBJECT_0", "WAIT_FAILED"},
        g \in BOOLEAN : thrd_join(h, r, w, g)
  \/ \E h \in Created : thrd_detach(h)

\* The steps that create and delete keys.
TssSteps ==
  \/ \E t \in AllThr, d \in Dtors \cup {"NULL"} : tss_create(t, d)
  \/ \E t \in AllThr : impl_tss_dtor_register(t)
  \/ \E t \in AllThr : impl_tss_dtor_register_key(t)
  \/ \E t \in AllThr : impl_tss_dtor_register_dtor(t)
  \/ \E t \in AllThr, k \in Slots : tss_delete(t, k)

NextThrd ==
  \/ ThrdSteps
  \/ TssSteps
  \/ \E t \in AllThr, k \in Slots, v \in Vals \cup {0} : tss_set(t, k, v)

\* Threads that only live and end.
NextJoin == ThrdSteps

\* The initial thread alone creates and deletes keys, so that no two
\* registrations run at the same time; the other threads store values and
\* exit.
NextReuse ==
  \/ \E h \in Created : thrd_create(h, TRUE, "ok")
  \/ \E h \in Created : impl_thrd_routine_start(h)
  \/ \E h \in Created, code \in ExitCodes : impl_thrd_routine_return(h, code)
  \/ \E h \in Created, code \in ExitCodes : thrd_exit(h, code)
  \/ \E t \in Created : impl_tss_dtor_invoke(t)
  \/ \E h \in Created : ThreadEnd(h)
  \/ \E d \in Dtors \cup {"NULL"} : tss_create(0, d)
  \/ impl_tss_dtor_register(0)
  \/ impl_tss_dtor_register_key(0)
  \/ impl_tss_dtor_register_dtor(0)
  \/ \E k \in Slots : tss_delete(0, k)
  \/ \E t \in Created, k \in Slots, v \in Vals \cup {0} : tss_set(t, k, v)

\* Threads that are started and only create and delete keys.
NextTss ==
  \/ \E h \in Created : thrd_create(h, TRUE, "ok")
  \/ \E h \in Created : impl_thrd_routine_start(h)
  \/ TssSteps

(***************************************************************************)
(* Specifications                                                          *)
(***************************************************************************)

InitOnce == InitOnceVars /\ InitMtxVars(MThreads) /\ InitThrdVars /\ InitTimeVars

SpecOnce == InitOnce /\ [][NextOnce]_vars

InitMtx ==
  /\ InitOnceVars /\ nativeOnce = FALSE
  /\ InitMtxVars(MThreads)
  /\ InitThrdVars /\ impl_tss_dtor_tbl[0].dtor = "NULL"
  /\ InitTimeVars

SpecMtx == InitMtx /\ [][NextMtx]_vars

InitCnd ==
  /\ InitOnceVars /\ nativeOnce = FALSE
  /\ InitMtxVars(CThreads)
  /\ InitThrdVars /\ impl_tss_dtor_tbl[0].dtor = "NULL"
  /\ InitTimeVars

\* The clock advances and a thread inside mtx_timedlock is scheduled again
\* after thrd_yield.
FairMtx ==
  /\ WF_vars(Tick)
  /\ \A t \in MThreads :
       WF_vars(mtx_timedlock_check(t)) /\ WF_vars(mtx_timedlock_retry(t))

SpecTimedFair == InitMtx /\ [][NextTimed]_vars /\ FairMtx

SpecCnd == InitCnd /\ [][NextCnd]_vars

InitThrd ==
  /\ InitOnceVars /\ nativeOnce = FALSE
  /\ InitMtxVars(MThreads)
  /\ InitThrdVars
  /\ InitTimeVars

SpecThrd == InitThrd /\ [][NextThrd]_vars

SpecJoin == InitThrd /\ [][NextJoin]_vars

SpecTss == InitThrd /\ [][NextTss]_vars

SpecReuse == InitThrd /\ [][NextReuse]_vars

InitTime ==
  /\ InitOnceVars /\ nativeOnce = FALSE
  /\ InitMtxVars(MThreads)
  /\ InitThrdVars /\ impl_tss_dtor_tbl[0].dtor = "NULL"
  /\ abs_time \in Timespecs
  /\ now \in Timespecs
  /\ rel_ms = NoResult

SpecTime == InitTime /\ [][NextTime]_vars

(***************************************************************************)
(* Claims                                                                  *)
(***************************************************************************)

\* C1: the initializer of a once_flag shared by racing callers is entered at
\* most once, and every call_once that has returned did so after that single
\* execution had run to its end (each caller reads the counter as 1).
C1_ExactlyOnce ==
  /\ funcStarted <= 1
  /\ \A t \in OnceThreads :
        opc[t] = "returned" => funcStarted = 1 /\ funcDone = 1 /\ seen[t] = 1

\* All callers have returned: one ran the initializer, the others arrived
\* while it was in progress or after it had finished.
C1_Witness ==
  /\ \A t \in OnceThreads : opc[t] = "returned"
  /\ funcDone = 1

\* C2: mutual exclusion. At most one thread holds the mutex, whichever of
\* mtx_lock, mtx_trylock, mtx_timedlock and the re-entry that ends cnd_wait or
\* cnd_timedwait gave it to the thread, and the critical section names that
\* thread as its owner with the matching count.
C2_MutualExclusion ==
  /\ Cardinality({t \in DOMAIN held : held[t] > 0}) <= 1
  /\ \A t \in DOMAIN held :
       held[t] > 0 => cs.OwningThread = t /\ cs.RecursionCount = held[t]

\* One thread holds the mutex while another, woken from its sleep on the
\* condition variable, is waiting to enter the section again.
C2_Witness ==
  \E t, u \in DOMAIN held : t # u /\ held[t] > 0 /\ mpc[u] = "cnd_woken"

\* C5: cnd_wait and cnd_timedwait leave the mutex and join the sleepers in one
\* step (a thread that has left the mutex to sleep is on the wait list, so a
\* cnd_signal made while it sleeps wakes a sleeper), and when the call returns,
\* with thrd_success or with thrd_timedout, the caller holds the mutex again.
C5_Sleeping ==
  \A t \in DOMAIN mpc :
    mpc[t] = "cnd_blocked" => t \in cond /\ held[t] = 0 /\ cs.OwningThread # t

C5_SignalNotMissed ==
  \A t \in DOMAIN mpc :
    cnd_signal(t) /\ (\E w \in DOMAIN mpc : mpc[w] = "cnd_blocked")
      => \E w \in DOMAIN mpc : mpc[w] = "cnd_blocked" /\ mpc'[w] = "cnd_woken"

C5_HeldOnReturn ==
  \A w \in DOMAIN mpc :
    mpc[w] = "cnd_woken" /\ mpc'[w] = "idle"
      => /\ cs'.OwningThread = w /\ cs'.RecursionCount = 1 /\ held'[w] = 1
         /\ lastCall'.op \in {"cnd_wait", "cnd_timedwait"}
         /\ lastCall'.ret \in {"thrd_success", "thrd_timedout"}
         /\ lastCall'.ret = "thrd_timedout" <=> wake[w] = "timeout"

C5_WaitReleasesAndReacquires ==
  /\ []C5_Sleeping
  /\ [][C5_SignalNotMissed /\ C5_HeldOnReturn]_vars

\* A cnd_timedwait has just returned thrd_timedout and its caller holds the
\* mutex.
C5_Witness ==
  /\ lastCall = Returned("cnd_timedwait", "thrd_timedout")
  /\ \E t \in DOMAIN held : held[t] = 1 /\ cs.OwningThread = t

\* C6: cnd_signal wakes at most one of the sleepers, cnd_broadcast wakes every
\* thread that sleeps on the condition variable when it is called, and both
\* return thrd_success.
C6_Signal ==
  \A t \in DOMAIN mpc :
    cnd_signal(t)
      => /\ Cardinality({w \in DOMAIN mpc : mpc[w] # mpc'[w]}) <= 1
         /\ Cardinality(cond \ cond') <= 1
         /\ lastCall' = Returned("cnd_signal", "thrd_success")

C6_Broadcast ==
  \A t \in DOMAIN mpc :
    cnd_broadcast(t)
      => /\ \A w \in cond : mpc'[w] = "cnd_woken" /\ wake'[w] = "wake"
         /\ cond' = {}
         /\ lastCall' = Returned("cnd_broadcast", "thrd_success")

C6_SignalOneBroadcastAll == [][C6_Signal /\ C6_Broadcast]_vars

\* A cnd_broadcast has returned and two threads it found sleeping are awake.
C6_Witness ==
  /\ lastCall = Returned("cnd_broadcast", "thrd_success")
  /\ Cardinality({w \in DOMAIN mpc : mpc[w] = "cnd_woken"}) >= 2

\* C7: a cnd_signal or cnd_broadcast made while no thread sleeps returns
\* thrd_success and changes nothing; a cnd_wait made afterwards puts its
\* caller to sleep, and a sleeper of cnd_wait is woken only in the step of a
\* cnd_signal or cnd_broadcast made while it sleeps (or by a spurious wakeup
\* of the native condition variable).
C7_NoOp ==
  \A t \in DOMAIN mpc :
    (cnd_signal(t) \/ cnd_broadcast(t)) /\ cond = {}
      => /\ UNCHANGED <<mtxKind, cs, held, cond, mpc, wake, deadline, expire, clock>>
         /\ lastCall'.ret = "thrd_success"

C7_WaitSleeps ==
  \A t \in DOMAIN mpc :
    cnd_wait(t) => mpc'[t] = "cnd_blocked" /\ t \in cond' /\ wake'[t] = "none"

C7_WokenByLaterCall ==
  \A w \in DOMAIN mpc :
    mpc[w] = "cnd_blocked" /\ expire[w].never /\ mpc'[w] # "cnd_blocked"
      => \/ \E t \in DOMAIN mpc \ {w} : cnd_signal(t) \/ cnd_broadcast(t)
         \/ SleepSpurious(w)

C7_SignalNotRemembered == [][C7_NoOp /\ C7_WaitSleeps /\ C7_WokenByLaterCall]_vars

\* The call that returned last is a cnd_signal made while nobody slept, and a
\* thread that called cnd_wait after it is asleep.
C7_Witness ==
  /\ lastCall = Returned("cnd_signal", "thrd_success")
  /\ \E w \in DOMAIN mpc : mpc[w] = "cnd_blocked" /\ w \in cond /\ expire[w].never

\* C10: mtx_trylock on a mutex of non-recursive type that another thread
\* holds returns thrd_busy in the step of the call (the call is enabled
\* whenever the caller is in no other call: it never waits) and leaves the
\* mutex with its holder.
C10_Busy ==
  \A t \in DOMAIN mpc :
    mtx_trylock(t) /\ mtxKind = "plain" /\ cs.OwningThread \notin {0, t}
      => /\ lastCall' = Returned("mtx_trylock", "thrd_busy")
         /\ cs' = cs /\ held' = held /\ mpc'[t] = "idle"

C10_NeverWaits ==
  \A t \in DOMAIN mpc :
    Idle(t) /\ cs.OwningThread \notin {0, t} => ENABLED mtx_trylock(t)

C10_TryLockBusy == []C10_NeverWaits /\ [][C10_Busy]_vars

\* mtx_trylock has just returned thrd_busy on a non-recursive mutex that a
\* thread holds.
C10_Witness ==
  /\ lastCall = Returned("mtx_trylock", "thrd_busy")
  /\ mtxKind = "plain"
  /\ \E t \in DOMAIN held : held[t] > 0 /\ cs.OwningThread = t


(***************************************************************************)
(* C3: thrd_join closes the native thread handle before it returns, on     *)
(* every return path: thrd_success, and thrd_error after a failed wait or  *)
(* a failed retrieval of the exit code.                                    *)
(***************************************************************************)
C3_JoinClosesHandle ==
  [][\A h \in Created, r \in BOOLEAN, w \in {"WAIT_OBJECT_0", "WAIT_FAILED"},
        g \in BOOLEAN :
       thrd_join(h, r, w, g) => handle'[h] = "closed"]_vars

(***************************************************************************)
(* C4: when a thread started by thrd_create has exited, the destructor of  *)
(* every key that was created with a destructor and stayed live during the *)
(* exit has been invoked for that thread exactly once, with the value the  *)
(* thread last stored, if that value is not null, and never if it is null. *)
(***************************************************************************)
C4_DestructorOncePerKey ==
  \A h \in Created : tpc[h] = "terminated" =>
    \A k \in Slots : atExit[h][k].dtor \in Dtors =>
      LET inv == {i \in 1 .. Len(calls[h]) :
                    /\ calls[h][i].key = k
                    /\ calls[h][i].dtor = atExit[h][k].dtor}
      IN  /\ Cardinality(inv) = (IF atExit[h][k].val = 0 THEN 0 ELSE 1)
          /\ \A i \in inv : calls[h][i].val = atExit[h][k].val

(***************************************************************************)
(* C8: when impl_tss_dtor_register finds no entry of the table without     *)
(* destructor, tss_create returns thrd_error, the TLS index it allocated   *)
(* is free again and the table is unchanged; when there is such an entry   *)
(* the registration goes on with one, the destructor is stored in it and   *)
(* tss_create returns thrd_success for a valid key.                        *)
(***************************************************************************)
C8_TableFull == \A i \in Entries : impl_tss_dtor_tbl[i].dtor # "NULL"

C8_RegisterStep ==
  \A t \in AllThr : impl_tss_dtor_register(t) =>
    IF C8_TableFull
    THEN /\ lastTss' = [ret |-> "thrd_error", key |-> creg[t].key, dtor |-> creg[t].dtor]
         /\ tpc'[t] = "user"
         /\ creg[t].key \notin tlsAlloc'
         /\ impl_tss_dtor_tbl' = impl_tss_dtor_tbl
    ELSE /\ tpc'[t] = "reg_key"
         /\ impl_tss_dtor_tbl[creg'[t].idx].dtor = "NULL"
         /\ tlsAlloc' = tlsAlloc

C8_RegisterDone ==
  \A t \in AllThr : impl_tss_dtor_register_dtor(t) =>
    /\ impl_tss_dtor_tbl'[creg[t].idx].dtor = creg[t].dtor
    /\ creg[t].key \in Slots => lastTss'.ret = "thrd_success" /\ creg[t].key \in tlsAlloc'

C8_FullTableFailsCreate == [][C8_RegisterStep /\ C8_RegisterDone]_vars

C8_Witness ==
  /\ C8_TableFull
  /\ lastTss.ret = "thrd_error"
  /\ lastTss.dtor \in Dtors
  /\ lastTss.key \in Slots
  /\ lastTss.key \notin tlsAlloc
  /\ \E i \in Entries : impl_tss_dtor_tbl[i].key \in Slots

(***************************************************************************)
(* C9: after thrd_join with a non-null res returned thrd_success, *res is  *)
(* the int the thread function returned or passed to thrd_exit.            *)
(***************************************************************************)
C9_JoinYieldsExitStatus ==
  \A h \in Created :
    joinRet[h] = "thrd_success" /\ resVal[h].set =>
      /\ userCode[h].set
      /\ resVal[h].val = userCode[h].val

C9_Witness ==
  \E h \in Created :
    /\ joinRet[h] = "thrd_success"
    /\ resVal[h] = [set |-> TRUE, val |-> -1]
    /\ userCode[h].via = "thrd_exit"


(***************************************************************************)
(* C11: mtx_timedlock with a deadline that is already in the past, on a    *)
(* mutex held by another thread, makes one attempt, which fails, then      *)
(* returns thrd_timedout: it does not acquire the mutex, does not yield    *)
(* and makes no second attempt, and nothing keeps it from returning.       *)
(***************************************************************************)
C11_Past ==
  [t \in DOMAIN mpc |->
     [ts \in Deadlines \cup {deadline[t]} |->
        BigGt(impl_timespec2msec(timespec_get(clock)), impl_timespec2msec(ts))]]

C11_FailedAttempt ==
  \A t \in DOMAIN mpc, ts \in Deadlines :
    mtx_timedlock(t, ts) /\ C11_Past[t][ts] /\ cs.OwningThread \notin {0, t} =>
      /\ mpc'[t] = "tl_check"
      /\ deadline'[t] = ts
      /\ cs' = cs /\ held' = held

C11_TimesOut ==
  \A t \in DOMAIN mpc :
    mtx_timedlock_check(t) /\ C11_Past[t][deadline[t]] =>
      /\ lastCall' = Returned("mtx_timedlock", "thrd_timedout")
      /\ mpc'[t] = "idle"
      /\ cs' = cs /\ held' = held

C11_NoWait ==
  \A t \in DOMAIN mpc : mpc[t] = "tl_check" =>
    /\ ENABLED mtx_timedlock_check(t)
    /\ ~ENABLED mtx_timedlock_retry(t)

C11_PastDeadlineTimesOut == []C11_NoWait /\ [][C11_FailedAttempt /\ C11_TimesOut]_vars

C11_Witness ==
  \E t \in DOMAIN mpc :
    /\ mpc[t] = "tl_check"
    /\ C11_Past[t][deadline[t]]
    /\ cs.OwningThread \notin {0, t}


(***************************************************************************)
(* C12: impl_abs2relmsec returns the remaining time abs_ms - now_ms when   *)
(* the deadline is after the current time and 0 when it is not, where      *)
(* ms = tv_sec * 1000 + tv_nsec / 1000000, and the result is a 32-bit      *)
(* unsigned number.                                                        *)
(***************************************************************************)
C12_RemainingDuration ==
  rel_ms.set =>
    LET abs_ms == impl_timespec2msec(abs_time)
        now_ms == impl_timespec2msec(now)
    IN  /\ rel_ms.val.hi < 65536
        /\ rel_ms.val = IF BigGt(abs_ms, now_ms) THEN BigSub(abs_ms, now_ms)
                        ELSE BigZero


(***************************************************************************)
(* C13: mtx_init returns thrd_error and leaves the mutex uninitialised for *)
(* every type that is not one of mtx_plain, mtx_timed, mtx_try alone or    *)
(* OR-ed with mtx_recursive; for these six it initialises the mutex and    *)
(* returns thrd_success. As stated, mtx_recursive alone and                *)
(* mtx_try|mtx_timed are among the rejected types.                         *)
(***************************************************************************)
C13_Valid ==
  {BitOr(base, rec) : base \in {mtx_plain, mtx_timed, mtx_try}, rec \in {0, mtx_recursive}}

C13_Initialised ==
  /\ lastCall' = Returned("mtx_init", "thrd_success")
  /\ mtxKind' # "none"
  /\ cs' = InitializeCriticalSection

C13_Rejected ==
  /\ lastCall' = Returned("mtx_init", "thrd_error")
  /\ mtxKind' = "none"
  /\ cs' = cs

C13_AsStated ==
  [][\A t \in DOMAIN mpc, type \in MtxTypes : mtx_init(t, type) =>
       /\ type \in C13_Valid => C13_Initialised
       /\ (type \notin C13_Valid \/ type \in {mtx_recursive, BitOr(mtx_try, mtx_timed)})
            => C13_Rejected]_vars

\* C13, amended: mtx_recursive alone is the same value as
\* mtx_plain|mtx_recursive and is accepted; every type outside the six
\* values is rejected.
C13_InitChecksType ==
  [][\A t \in DOMAIN mpc, type \in MtxTypes : mtx_init(t, type) =>
       IF type \in C13_Valid THEN C13_Initialised ELSE C13_Rejected]_vars

C13_Witness ==
  /\ lastCall = Returned("mtx_init", "thrd_error")
  /\ mtxKind = "none"
  /\ Cardinality(C13_Valid) = 6
  /\ mtx_recursive \in C13_Valid
  /\ BitOr(mtx_try, mtx_timed) \in MtxTypes \ C13_Valid


(***************************************************************************)
(* C14: the holder of a recursive mutex can lock it again, and the locks   *)
(* are counted: while the holder has more locks than unlocks the mutex is  *)
(* owned by it and mtx_trylock of another thread returns thrd_busy; each   *)
(* mtx_unlock takes one lock off and the mutex is free exactly after the   *)
(* unlock that takes the last one off.                                     *)
(***************************************************************************)
C14_Counted ==
  mtxKind = "recursive" =>
    /\ \A t \in DOMAIN held :
         held[t] > 0 => cs.OwningThread = t /\ cs.RecursionCount = held[t]
    /\ cs.OwningThread = 0 <=> \A t \in DOMAIN held : held[t] = 0

C14_HolderLocksAgain ==
  \A t \in DOMAIN held :
    ( /\ mtxKind = "recursive"
      /\ Idle(t)
      /\ held[t] > 0
      /\ held[t] < MaxRecursion ) => ENABLED mtx_lock(t)

C14_OthersBusy ==
  \A t \in DOMAIN held :
    ( /\ mtxKind = "recursive"
      /\ mtx_trylock(t)
      /\ \E u \in DOMAIN held \ {t} : held[u] > 0 ) =>
        /\ lastCall' = Returned("mtx_trylock", "thrd_busy")
        /\ cs' = cs /\ held' = held

C14_UnlockCounts ==
  \A t \in DOMAIN held :
    mtxKind = "recursive" /\ mtx_unlock(t) =>
      /\ held'[t] = held[t] - 1
      /\ cs'.OwningThread = (IF held[t] = 1 THEN 0 ELSE t)

C14_RecursiveCounted ==
  /\ [](C14_Counted /\ C14_HolderLocksAgain)
  /\ [][C14_OthersBusy /\ C14_UnlockCounts]_vars

C14_Witness ==
  \E t \in DOMAIN held :
    /\ mtxKind = "recursive"
    /\ lastCall = Returned("mtx_unlock", "thrd_success")
    /\ held[t] = 1
    /\ cs = [OwningThread |-> t, RecursionCount |-> 1]


(***************************************************************************)
(* C15: a thread created by thrd_create runs the loop of                   *)
(* impl_tss_dtor_invoke exactly once, whether it returns from its function *)
(* or calls thrd_exit, and the loop is over before the thread terminates;  *)
(* as stated, no thrd_join on the thread returns before that.              *)
(***************************************************************************)
C15_SweepOnce ==
  \A h \in Created :
    /\ (tpc[h] # "sweep" /\ tpc'[h] = "sweep") =>
         /\ tpc[h] = "user"
         /\ ~userCode[h].set /\ userCode'[h].set
         /\ userCode'[h].via \in {"return", "thrd_exit"}
         /\ sweepAt'[h] = 0
    /\ userCode[h].set => userCode'[h] = userCode[h]
    /\ sweepAt'[h] >= sweepAt[h]
    /\ (tpc[h] # "terminated" /\ tpc'[h] = "terminated") =>
         /\ tpc[h] = "sweep"
         /\ sweepAt[h] = EMULATED_THREADS_TSS_DTOR_SLOTNUM
         /\ calls'[h] = calls[h]
    /\ tpc[h] = "terminated" => tpc'[h] = "terminated" /\ calls'[h] = calls[h]

C15_SweepOver ==
  [h \in Created |->
     tpc[h] = "terminated" /\ sweepAt[h] = EMULATED_THREADS_TSS_DTOR_SLOTNUM]

C15_AsStated ==
  [][/\ C15_SweepOnce
     /\ \A h \in Created, r \in BOOLEAN, w \in {"WAIT_OBJECT_0", "WAIT_FAILED"},
           g \in BOOLEAN : thrd_join(h, r, w, g) => C15_SweepOver[h]]_vars

\* C15, amended: a thrd_join whose wait succeeds, and so every thrd_join
\* that returns thrd_success, returns after the loop is over; a thrd_join
\* whose wait fails returns thrd_error at any time.
C15_SweepBeforeJoin ==
  [][/\ C15_SweepOnce
     /\ \A h \in Created, r \in BOOLEAN, g \in BOOLEAN :
          thrd_join(h, r, "WAIT_OBJECT_0", g) => C15_SweepOver[h]
     /\ \A h \in Created :
          joinRet'[h] = "thrd_success" => C15_SweepOver[h]]_vars

C15_Witness ==
  \E h \in Created :
    /\ joinRet[h] = "thrd_success"
    /\ userCode[h].via = "thrd_exit"
    /\ C15_SweepOver[h]
    /\ Len(calls[h]) > 0


(***************************************************************************)
(* C16: mtx_timedlock returns only thrd_success or thrd_timedout;          *)
(* thrd_success exactly when one of its attempts entered the section,      *)
(* thrd_timedout only after a failed attempt at which the deadline was not *)
(* after the current time; and when the clock advances and the thread is   *)
(* scheduled again, every call returns, even if the mutex is never         *)
(* released.                                                               *)
(***************************************************************************)
C16_InCall == [t \in DOMAIN mpc |-> mpc[t] \in {"tl_check", "tl_try"}]

C16_DeadlineReached ==
  [t \in DOMAIN mpc |->
     LET cur == timespec_get(clock)
     IN  \/ deadline[t].tv_sec < cur.tv_sec
         \/ deadline[t].tv_sec = cur.tv_sec /\ deadline[t].tv_nsec <= cur.tv_nsec]

C16_Attempt ==
  \A t \in DOMAIN mpc :
    ((\E ts \in Deadlines : mtx_timedlock(t, ts)) \/ mtx_timedlock_retry(t)) =>
      \/ /\ cs.OwningThread \in {0, t}
         /\ cs' = [OwningThread |-> t, RecursionCount |-> cs.RecursionCount + 1]
         /\ held'[t] = held[t] + 1
         /\ mpc'[t] = "idle"
         /\ lastCall' = Returned("mtx_timedlock", "thrd_success")
      \/ /\ cs.OwningThread \notin {0, t}
         /\ cs' = cs /\ held' = held
         /\ mpc'[t] = "tl_check"
         /\ lastCall' = lastCall

C16_AfterFailure ==
  \A t \in DOMAIN mpc :
    mtx_timedlock_check(t) =>
      /\ cs' = cs /\ held' = held
      /\ IF C16_DeadlineReached[t]
         THEN mpc'[t] = "idle" /\ lastCall' = Returned("mtx_timedlock", "thrd_timedout")
         ELSE mpc'[t] = "tl_try" /\ lastCall' = lastCall

C16_OnlyTheseReturn ==
  \A t \in DOMAIN mpc :
    C16_InCall[t] /\ ~C16_InCall'[t] =>
      /\ mpc'[t] = "idle"
      /\ lastCall'.op = "mtx_timedlock"
      /\ lastCall'.ret \in {"thrd_success", "thrd_timedout"}

C17_PackageOwned ==
  \A h \in Created :
    /\ ~pack[h].stale
    /\ pack[h].frees = (IF pack[h].state = "freed" THEN 1 ELSE 0)
    /\ tpc[h] = "start" => pack[h].state = "allocated"
    /\ tpc[h] \notin {"unborn", "start"} => pack[h].state = "freed"
    /\ tpc[h] = "unborn" => pack[h].state # "allocated"

C17_CreateReturns ==
  \A h \in Created, m \in BOOLEAN, sp \in {"ok", "EAGAIN", "EACCES", "EINVAL"} :
    thrd_create(h, m, sp) =>
      IF ~m
      THEN /\ createRet'[h] = "thrd_nomem"
           /\ pack' = pack /\ handle' = handle /\ tpc' = tpc
      ELSE IF sp = "ok"
      THEN /\ createRet'[h] = "thrd_success"
           /\ handle'[h] = "open"
           /\ tpc'[h] = "start"
           /\ pack'[h] = [state |-> "allocated", frees |-> 0, stale |-> FALSE]
      ELSE /\ createRet'[h] = (IF sp \in {"EAGAIN", "EACCES"} THEN "thrd_nomem"
                               ELSE "thrd_error")
           /\ pack'[h] = [state |-> "freed", frees |-> 1, stale |-> FALSE]
           /\ handle' = handle /\ tpc' = tpc

C17_PackageFreedOnce == []C17_PackageOwned /\ [][C17_CreateReturns]_vars

C17_Witness ==
  \E h \in Created :
    /\ createRet[h] = "thrd_success"
    /\ handle[h] = "open"
    /\ tpc[h] = "user"
    /\ pack[h] = [state |-> "freed", frees |-> 1, stale |-> FALSE]


(***************************************************************************)
(* C18: after a tss_create with a destructor has returned thrd_success,    *)
(* the table holds the pair of its key and its destructor, also when       *)
(* several threads call tss_create at the same time: no registration is    *)
(* lost or overwritten. (The pairs of deleted keys are not asked for.)     *)
(***************************************************************************)
C18_RegistrationKept ==
  \A k \in Slots : keyDtor[k] \in Dtors =>
    \E i \in Entries : impl_tss_dtor_tbl[i] = [key |-> k, dtor |-> keyDtor[k]]


(***************************************************************************)
(* C19: a tss_create that returns thrd_error, because the table is full or *)
(* because TlsAlloc failed, has added no entry to the table: the step by   *)
(* which it returns leaves the table as it was, and no entry holds a       *)
(* destructor for the invalid key.                                         *)
(***************************************************************************)
C19_FailedCreateLeavesTable ==
  [][\A t \in AllThr :
       ( /\ \/ \E d \in Dtors \cup {"NULL"} : tss_create(t, d)
            \/ impl_tss_dtor_register(t)
            \/ impl_tss_dtor_register_dtor(t)
         /\ tpc'[t] = "user"
         /\ lastTss'.ret = "thrd_error" ) =>
           /\ impl_tss_dtor_tbl' = impl_tss_dtor_tbl
           /\ \A i \in Entries :
                impl_tss_dtor_tbl'[i].dtor # "NULL" =>
                  impl_tss_dtor_tbl'[i].key # TLS_OUT_OF_INDEXES]_vars


(***************************************************************************)
(* C20: at the exit of a thread, a value stored under a key that is live   *)
(* during the exit is passed to at most one destructor, and only to the    *)
(* destructor that key was created with; in particular not to the          *)
(* destructor of a deleted key whose TLS index the key has got.            *)
(***************************************************************************)
C20_OwnDestructorOnly ==
  \A h \in Created, k \in Slots :
    atExit[h][k].dtor # "none" =>
      LET inv == {i \in 1 .. Len(calls[h]) : calls[h][i].key = k}
      IN  /\ Cardinality(inv) <= 1
          /\ \A i \in inv : calls[h][i].dtor = atExit[h][k].dtor

====
